---- MODULE Spec2Model ----
(***************************************************************************)
(* Model of the Google News RSS palm-oil monitors:                         *)
(*   google_rss_en.py, google_rss_spanish.py  (word-overlap deduplicate)   *)
(*   google_rss_idn.py          (deduplicate_by_url_and_title, blended)    *)
(*                                                                         *)
(* Titles are sequences of one-character strings so that str.lower,        *)
(* str.strip, re.findall(r'\w+') and difflib.SequenceMatcher are computed  *)
(* character by character.  Query strings are TLA+ strings built with \o.  *)
(* Times are integers (seconds); a naive datetime is the number of seconds *)
(* its wall-clock fields denote.                                           *)
(***************************************************************************)
EXTENDS Integers, Sequences, FiniteSets, TLC

VARIABLES
    script,       \* which of the three scripts runs: "en", "es", "idn"
    pc,           \* position of the single thread of control
    tz,           \* local UTC offset of the machine, seconds
    utcNow,       \* the true instant, seconds (UTC)
    vocab,        \* the vocabulary lists the query generators iterate
    passNo,       \* number of passes main has completed
    queries,      \* query list of the pass in progress
    qi,           \* index of the query being processed in search_and_collect
    results,      \* search_and_collect's local results list
    all_results,  \* main's all_results
    executed,     \* queries for which fetch_news was called, in order
    inflight,     \* TRUE while a feed request is outstanding
    waits,        \* pacing waits completed since the last feed request
    fetchOutcome, \* what the last fetch_news call did
    budget,       \* entries the feed source will still return in this run
    items,        \* argument of the deduplicator
    pos,          \* index of the record the deduplicator's loop is at
    unique,       \* the deduplicator's unique list
    seen_urls,    \* deduplicate_by_url_and_title's seen_urls
    verdict,      \* what the deduplicator decided for each record processed
    final,        \* the deduplicator's returned list
    entry,        \* argument of is_recent (published_parsed of the entry)
    recent        \* result of the last is_recent call

vars == <<script, pc, tz, utcNow, vocab, passNo, queries, qi, results,
          all_results, executed, inflight, waits, fetchOutcome, budget, items,
          pos, unique, seen_urls, verdict, final, entry, recent>>

----------------------------------------------------------------------------
(* Bounds *)

MaxItems == 3

Scripts == {"en", "es", "idn"}

----------------------------------------------------------------------------
(* Characters and strings *)

\* str.lower on the characters the titles use
Lower(c) == IF c = "A" THEN "a" ELSE c

LowerStr(s) == [i \in 1..Len(s) |-> Lower(s[i])]

\* the regex class \w
IsWordChar(c) == c \notin {" ", "-"}

\* str.strip(): drop leading and trailing whitespace
RECURSIVE LStrip(_)
LStrip(s) == IF s # <<>> /\ Head(s) = " " THEN LStrip(Tail(s)) ELSE s

RECURSIVE RStrip(_)
RStrip(s) ==
    IF s # <<>> /\ s[Len(s)] = " " THEN RStrip(SubSeq(s, 1, Len(s) - 1)) ELSE s

Strip(s) == RStrip(LStrip(s))

\* re.findall(r'\w+', s): the maximal runs of word characters, as a set
FindWords(s) ==
    { SubSeq(s, i, j) : <<i, j>> \in
        { p \in (1..Len(s)) \X (1..Len(s)) :
            /\ p[1] <= p[2]
            /\ \A k \in p[1]..p[2] : IsWordChar(s[k])
            /\ (p[1] = 1 \/ ~IsWordChar(s[p[1] - 1]))
            /\ (p[2] = Len(s) \/ ~IsWordChar(s[p[2] + 1])) } }

normalize_title(title) == FindWords(LowerStr(title))

MinCommon == 4

is_similar(title1, title2, min_common) ==
    Cardinality(normalize_title(title1) \cap normalize_title(title2)) >= min_common

----------------------------------------------------------------------------
(* difflib.SequenceMatcher(None, a, b).ratio(), no junk, autojunk inactive *)
(* below 200 characters.  Ranges are half-open over 0-based offsets, as in *)
(* difflib: element at offset i is a[i + 1].                               *)

\* length of the common run starting at offsets i in a and j in b
RECURSIVE RunLen(_, _, _, _, _, _)
RunLen(a, b, i, j, ahi, bhi) ==
    IF i < ahi /\ j < bhi /\ a[i + 1] = b[j + 1]
    THEN 1 + RunLen(a, b, i + 1, j + 1, ahi, bhi)
    ELSE 0

SetMax(S) == CHOOSE m \in S : \A n \in S : n <= m
SetMin(S) == CHOOSE m \in S : \A n \in S : m <= n

\* find_longest_match: the longest block, earliest in a, then earliest in b
find_longest_match(a, b, alo, ahi, blo, bhi) ==
    LET cells == (alo..(ahi - 1)) \X (blo..(bhi - 1))
        k     == SetMax({0} \cup { RunLen(a, b, c[1], c[2], ahi, bhi) : c \in cells })
    IN  IF k = 0 THEN [i |-> alo, j |-> blo, k |-> 0]
        ELSE LET besti == SetMin({ c[1] : c \in { d \in cells :
                                RunLen(a, b, d[1], d[2], ahi, bhi) = k } })
                 bestj == SetMin({ j \in blo..(bhi - 1) :
                                RunLen(a, b, besti, j, ahi, bhi) = k })
             IN  [i |-> besti, j |-> bestj, k |-> k]

\* get_matching_blocks: total size of the blocks found by recursing to the
\* left and to the right of each longest match
RECURSIVE MatchingSize(_, _, _, _, _, _)
MatchingSize(a, b, alo, ahi, blo, bhi) ==
    LET m == find_longest_match(a, b, alo, ahi, blo, bhi)
    IN  IF m.k = 0 THEN 0
        ELSE m.k
             + (IF alo < m.i /\ blo < m.j
                THEN MatchingSize(a, b, alo, m.i, blo, m.j) ELSE 0)
             + (IF m.i + m.k < ahi /\ m.j + m.k < bhi
                THEN MatchingSize(a, b, m.i + m.k, ahi, m.j + m.k, bhi) ELSE 0)

\* ratio() = 2.0 * matches / (len(a) + len(b)), as a fraction
SeqRatio(a, b) ==
    IF Len(a) + Len(b) = 0 THEN [num |-> 1, den |-> 1]
    ELSE [num |-> 2 * MatchingSize(a, b, 0, Len(a), 0, Len(b)),
          den |-> Len(a) + Len(b)]

Max2(x, y) == IF x >= y THEN x ELSE y
Min2(x, y) == IF x <= y THEN x ELSE y

\* title_similarity: 0.6 * ratio + 0.4 * overlap, as a fraction over 10
title_similarity(a, b) ==
    IF a = <<>> \/ b = <<>> THEN [num |-> 0, den |-> 1]
    ELSE LET r  == SeqRatio(LowerStr(a), LowerStr(b))
             wa == normalize_title(a)
             wb == normalize_title(b)
             ov == IF wa # {} \/ wb # {}
                   THEN [num |-> Cardinality(wa \cap wb),
                         den |-> Max2(1, Min2(Cardinality(wa), Cardinality(wb)))]
                   ELSE [num |-> 0, den |-> 1]
         IN  [num |-> 6 * r.num * ov.den + 4 * ov.num * r.den,
              den |-> 10 * r.den * ov.den]

\* SIMILARITY_RATIO = 0.85
SimilarityRatio == [num |-> 85, den |-> 100]

\* sim >= SIMILARITY_RATIO
AtLeast(x, y) == x.num * y.den >= y.num * x.den

----------------------------------------------------------------------------
(* Titles, URLs and article records *)

TEmpty == <<>>
TAab   == <<"a", " ", "a", "b">>
TAbA   == <<"a", "b", " ", "a">>
TAbc   == <<"a", " ", "b", " ", "c">>
TAbcd  == <<"a", "-", "b", " ", "c", " ", "d">>
TAbcde == <<"A", " ", "b", " ", "c", " ", "d", " ", "e">>
TEfgh  == <<"e", " ", "f", " ", "g", " ", "h">>
TPadded == <<" ", "a", " ", "a", "b", " ">>

Titles == {TEmpty, TAab, TAbA, TAbc, TAbcd, TAbcde, TEfgh}

\* every title a record can carry, stripped or not
AllTitles == Titles \cup {TPadded}

\* is_similar(a, b, min_common=4) and title_similarity(a, b) >= SIMILARITY_RATIO,
\* evaluated once per pair of titles
SimilarTable ==
    [a \in AllTitles |-> [b \in AllTitles |-> is_similar(a, b, MinCommon)]]

TitleDupTable ==
    [a \in AllTitles |->
        [b \in AllTitles |-> AtLeast(title_similarity(a, b), SimilarityRatio)]]

Urls == {"", "u1", "u2"}

\* the dict search_and_collect builds for a recent entry
Records == [title : Titles, url : Urls, published : {"Unknown"}, query : {"q"}]

RECURSIVE SeqsUpTo(_, _)
SeqsUpTo(S, n) ==
    IF n = 0 THEN {<<>>}
    ELSE LET shorter == SeqsUpTo(S, n - 1)
         IN  shorter \cup { Append(xs, x) : xs \in { ys \in shorter : Len(ys) = n - 1 }, x \in S }

----------------------------------------------------------------------------
(* The deduplicators *)

\* inner loop of deduplicate: for u in unique: if is_similar(..., min_common=4)
duplicate_found(r, uniq) ==
    \E k \in 1..Len(uniq) : SimilarTable[r.title][uniq[k].title]

\* variant: unique.insert(0, r)
Accept_front(uniq, r) == <<r>> \o uniq

\* unique.append(r)
Accept(uniq, r) == Append(uniq, r)

\* variant: a duplicate replaces the record it duplicates (last one wins)
deduplicate_body_keep_last(uniq, r) ==
    IF duplicate_found(r, uniq)
    THEN LET k == CHOOSE k \in 1..Len(uniq) :
                    /\ SimilarTable[r.title][uniq[k].title]
                    /\ \A j \in 1..(k - 1) : ~SimilarTable[r.title][uniq[j].title]
         IN  [unique |-> [uniq EXCEPT ![k] = r], seen_urls |-> {},
              verdict |-> "dup_title"]
    ELSE [unique |-> Append(uniq, r), seen_urls |-> {}, verdict |-> "kept"]

\* one iteration of deduplicate's outer loop
deduplicate_body(uniq, r) ==
    IF duplicate_found(r, uniq)
    THEN [unique |-> uniq, seen_urls |-> {}, verdict |-> "dup_title"]
    ELSE [unique |-> Accept(uniq, r), seen_urls |-> {}, verdict |-> "kept"]

\* url = it.get("url") or it.get("link") or ""  (records carry "url" only)
ItemUrl(it) == IF it.url # "" THEN it.url ELSE ""

\* inner loop of deduplicate_by_url_and_title: sim >= SIMILARITY_RATIO
dup(it, uniq) ==
    \E k \in 1..Len(uniq) : TitleDupTable[it.title][uniq[k].title]

\* variant: seen_urls.add(url) done before the title check
dedup_url_title_body_early_add(seen, uniq, it) ==
    LET url == ItemUrl(it)
    IN  IF url = ""
        THEN [unique |-> uniq, seen_urls |-> seen, verdict |-> "no_url"]
        ELSE IF url \in seen
        THEN [unique |-> uniq, seen_urls |-> seen, verdict |-> "dup_url"]
        ELSE IF dup(it, uniq)
        THEN [unique |-> uniq, seen_urls |-> seen \cup {url},
              verdict |-> "dup_title"]
        ELSE [unique |-> Append(uniq, it), seen_urls |-> seen \cup {url},
              verdict |-> "kept"]

\* one iteration of deduplicate_by_url_and_title's outer loop
dedup_url_title_body(seen, uniq, it) ==
    LET url == ItemUrl(it)
    IN  IF url = ""
        THEN [unique |-> uniq, seen_urls |-> seen, verdict |-> "no_url"]
        ELSE IF url \in seen
        THEN [unique |-> uniq, seen_urls |-> seen, verdict |-> "dup_url"]
        ELSE IF dup(it, uniq)
        THEN [unique |-> uniq, seen_urls |-> seen, verdict |-> "dup_title"]
        ELSE [unique |-> Accept(uniq, it), seen_urls |-> seen \cup {url},
              verdict |-> "kept"]

\* the deduplicator main calls in script s
LoopBody(s, seen, uniq, r) ==
    IF s = "idn" THEN dedup_url_title_body(seen, uniq, r)
    ELSE deduplicate_body(uniq, r)

\* the whole deduplicator as a function of its argument
RECURSIVE DedupFrom(_, _, _, _, _)
DedupFrom(s, seen, uniq, xs, p) ==
    IF p > Len(xs) THEN uniq
    ELSE LET st == LoopBody(s, seen, uniq, xs[p])
         IN  DedupFrom(s, st.seen_urls, st.unique, xs, p + 1)

Dedup(s, xs) == DedupFrom(s, {}, <<>>, xs, 1)

\* one iteration of the running deduplicator
DedupStep ==
    /\ pc = "dedup"
    /\ pos <= Len(items)
    /\ LET st == LoopBody(script, seen_urls, unique, items[pos])
       IN  /\ unique' = st.unique
           /\ seen_urls' = st.seen_urls
           /\ verdict' = Append(verdict, st.verdict)
    /\ pos' = pos + 1
    /\ UNCHANGED <<script, pc, tz, utcNow, vocab, passNo, queries, qi, results,
                   all_results, executed, inflight, waits, fetchOutcome, budget,
                   items, final, entry, recent>>

\* return unique
DedupReturn ==
    /\ pc = "dedup"
    /\ pos > Len(items)
    /\ final' = unique
    /\ pc' = "done"
    /\ UNCHANGED <<script, tz, utcNow, vocab, passNo, queries, qi, results,
                   all_results, executed, inflight, waits, fetchOutcome, budget,
                   items, pos, unique, seen_urls, verdict, entry, recent>>

----------------------------------------------------------------------------
(* Recency filter *)

\* published_parsed of an entry without a parseable date
NoTime == -1

SecondsPerDay == 86400

\* DAYS_LIMIT of each script
DaysLimit(s) == IF s = "en" THEN 14 ELSE IF s = "es" THEN 7 ELSE 3

\* time.mktime(struct_time): the fields read as local time, to epoch seconds
Mktime(fields, offset) == fields - offset

\* datetime.fromtimestamp(ts): epoch seconds to naive local wall-clock time
FromTimestamp(ts, offset) == ts + offset

\* datetime.now(): naive local wall-clock time
DatetimeNow(now, offset) == now + offset

\* is_recent(entry, days); published_parsed holds the UTC fields of the
\* publication instant
is_recent(published_parsed, days, now, offset) ==
    IF published_parsed # NoTime
    THEN FromTimestamp(Mktime(published_parsed, offset), offset)
            >= DatetimeNow(now, offset) - days * SecondsPerDay
    ELSE FALSE

----------------------------------------------------------------------------
(* Query generation *)

\* the list a nest of for clauses builds: the lists its iterations yield,
\* one after the other
RECURSIVE Flatten(_)
Flatten(ss) ==
    IF Len(ss) = 0 THEN <<>>
    ELSE ss[1] \o Flatten([k \in 1..(Len(ss) - 1) |-> ss[k + 1]])

\* " OR ".join(parts)
RECURSIVE JoinOr(_)
JoinOr(parts) ==
    IF Len(parts) = 0 THEN ""
    ELSE IF Len(parts) = 1 THEN parts[1]
    ELSE parts[1] \o " OR " \o JoinOr([k \in 1..(Len(parts) - 1) |-> parts[k + 1]])

\* english script, passes 1 to 4
en_palm_queries(v) ==
    [i \in 1..Len(v.issues) |-> "palm oil " \o v.issues[i]]

\* variant: the two for clauses exchanged
en_company_queries_swapped(v) ==
    Flatten([i \in 1..Len(v.issues) |->
        [c \in 1..Len(v.companies) |-> v.companies[c] \o " " \o v.issues[i]]])

en_company_queries(v) ==
    Flatten([c \in 1..Len(v.companies) |->
        [i \in 1..Len(v.issues) |-> v.companies[c] \o " " \o v.issues[i]]])

en_ngo_queries(v) ==
    Flatten([i \in 1..Len(v.issues) |->
        [g \in 1..Len(v.ngo) |-> "palm oil " \o v.issues[i] \o " " \o v.ngo[g]]])

en_country_queries(v) ==
    [c \in 1..Len(v.country) |-> "palm oil " \o v.country[c]]

\* spanish script, passes 1 to 4
es_palm_queries(v) ==
    Flatten([t \in 1..Len(v.palm) |->
        [i \in 1..Len(v.issues) |-> v.palm[t] \o " " \o v.issues[i]]])

es_company_queries(v) ==
    Flatten([c \in 1..Len(v.companies) |->
        [i \in 1..Len(v.issues) |-> v.companies[c] \o " " \o v.issues[i]]])

es_country_queries(v) ==
    Flatten([t \in 1..Len(v.palm) |->
        Flatten([i \in 1..Len(v.issues) |->
            [c \in 1..Len(v.country) |->
                v.palm[t] \o " " \o v.issues[i] \o " " \o v.country[c]]])])

es_ngo_queries(v) ==
    Flatten([t \in 1..Len(v.palm) |->
        [g \in 1..Len(v.ngo) |-> v.palm[t] \o " " \o v.ngo[g]]])

\* indonesian script
alias_part(aliases) ==
    JoinOr([k \in 1..Len(aliases) |-> "\"" \o aliases[k] \o "\""])

company_queries_from_aliases(aliases_map, issues) ==
    Flatten([c \in 1..Len(aliases_map) |->
        Flatten([i \in 1..Len(issues) |->
            << "(" \o alias_part(aliases_map[c].aliases) \o ") " \o issues[i]
                   \o " sawit",
               "(" \o alias_part(aliases_map[c].aliases) \o ") " \o issues[i]
                   \o " \"minyak sawit\"",
               "(" \o alias_part(aliases_map[c].aliases) \o ") " \o issues[i] >>])])

simple_palm_issue_queries(issues, ngos) ==
    Flatten([i \in 1..Len(issues) |->
        <<"sawit " \o issues[i]>>
        \o [g \in 1..Len(ngos) |-> "sawit " \o issues[i] \o " " \o ngos[g]]])

\* number of search_and_collect calls main makes
NumPasses(s) == IF s = "idn" THEN 2 ELSE 4

\* the query list main hands to its p-th search_and_collect call
PassQueries(s, p, v) ==
    IF s = "en" THEN
        (IF p = 1 THEN en_palm_queries(v)
         ELSE IF p = 2 THEN en_company_queries(v)
         ELSE IF p = 3 THEN en_ngo_queries(v)
         ELSE en_country_queries(v))
    ELSE IF s = "es" THEN
        (IF p = 1 THEN es_palm_queries(v)
         ELSE IF p = 2 THEN es_company_queries(v)
         ELSE IF p = 3 THEN es_country_queries(v)
         ELSE es_ngo_queries(v))
    ELSE
        (IF p = 1 THEN simple_palm_issue_queries(v.issues, v.ngo)
         ELSE company_queries_from_aliases(v.aliases, v.issues))

----------------------------------------------------------------------------
(* Feed source *)

MaxArticles == 3

\* the instant the run starts
Now0 == 40 * SecondsPerDay

\* PAUSE_SECONDS / time.sleep(1)
PauseSeconds == 1

EShared  == [title |-> TAbc, link |-> "u1", id |-> "", published |-> "Mon",
             published_parsed |-> Now0 - 3600]
EOther   == [title |-> TEfgh, link |-> "u2", id |-> "", published |-> "Tue",
             published_parsed |-> Now0 - 7200]
EPadded  == [title |-> TPadded, link |-> "", id |-> "g1", published |-> "Wed",
             published_parsed |-> Now0 - 60]
EOld     == [title |-> TAbcd, link |-> "u2", id |-> "", published |-> "Thu",
             published_parsed |-> Now0 - 30 * SecondsPerDay]
EUndated == [title |-> TAbcde, link |-> "u1", id |-> "", published |-> "Unknown",
             published_parsed |-> NoTime]

Entries == {EShared, EOther, EPadded, EOld, EUndated}

\* what feedparser.parse(url).entries can be
Feeds == {<<>>} \cup { <<e>> : e \in Entries } \cup { <<EOld, EShared>> }

----------------------------------------------------------------------------
(* Collector *)

\* the dict appended for a recent entry
MakeRecord(s, e, q) ==
    IF s = "idn"
    THEN [title |-> Strip(e.title),
          url |-> IF e.link # "" THEN e.link ELSE IF e.id # "" THEN e.id ELSE "",
          published |-> e.published, query |-> q]
    ELSE [title |-> e.title, url |-> e.link, published |-> e.published,
          query |-> q]

\* for e in entries: if is_recent(e): results.append({...})
RECURSIVE CollectEntries(_, _, _, _, _)
CollectEntries(s, feed, q, now, offset) ==
    IF feed = <<>> THEN <<>>
    ELSE (IF is_recent(Head(feed).published_parsed, DaysLimit(s), now, offset)
          THEN <<MakeRecord(s, Head(feed), q)>> ELSE <<>>)
         \o CollectEntries(s, Tail(feed), q, now, offset)

\* main calls search_and_collect on the next pass's queries
StartPass ==
    /\ pc = "main"
    /\ passNo < NumPasses(script)
    /\ queries' = PassQueries(script, passNo + 1, vocab)
    /\ qi' = 1
    /\ results' = <<>>
    /\ pc' = "collect"
    /\ UNCHANGED <<script, tz, utcNow, vocab, passNo, all_results, executed,
                   inflight, waits, fetchOutcome, budget, items, pos, unique,
                   seen_urls, verdict, final, entry, recent>>

\* for q in queries: entries = fetch_news(q) is called
IssueRequest ==
    /\ pc = "collect"
    /\ qi <= Len(queries)
    /\ executed' = Append(executed, queries[qi])
    /\ inflight' = TRUE
    /\ waits' = 0
    /\ pc' = "fetching"
    /\ UNCHANGED <<script, tz, utcNow, vocab, passNo, queries, qi, results,
                   all_results, fetchOutcome, budget, items, pos, unique,
                   seen_urls, verdict, final, entry, recent>>

\* fetch_news returns a feed; the recent entries are appended to results
FetchReturn ==
    /\ pc = "fetching"
    /\ \E feed \in Feeds :
        /\ Len(feed) <= budget
        /\ results' = results \o CollectEntries(script, feed, queries[qi], utcNow, tz)
        /\ fetchOutcome' = IF feed = <<>> THEN "empty" ELSE "entries"
        /\ budget' = budget - Len(feed)
    /\ inflight' = FALSE
    /\ pc' = "sleep"
    /\ UNCHANGED <<script, tz, utcNow, vocab, passNo, queries, qi, all_results,
                   executed, waits, items, pos, unique, seen_urls, verdict,
                   final, entry, recent>>

\* fetch_news raises; nothing in search_and_collect or main catches it
FetchRaise ==
    /\ pc = "fetching"
    /\ fetchOutcome' = "raised"
    /\ inflight' = FALSE
    /\ pc' = "aborted"
    /\ UNCHANGED <<script, tz, utcNow, vocab, passNo, queries, qi, results,
                   all_results, executed, waits, budget, items, pos, unique,
                   seen_urls, verdict, final, entry, recent>>

\* variant: the pause is taken between the queries of a pass only
Sleep_between_only ==
    /\ pc = "sleep"
    /\ waits' = IF qi < Len(queries) THEN waits + 1 ELSE waits
    /\ utcNow' = IF qi < Len(queries) THEN utcNow + PauseSeconds ELSE utcNow
    /\ qi' = qi + 1
    /\ pc' = "collect"
    /\ UNCHANGED <<script, tz, vocab, passNo, queries, results, all_results,
                   executed, inflight, fetchOutcome, budget, items, pos,
                   unique, seen_urls, verdict, final, entry, recent>>

\* time.sleep(...) at the end of the loop body
Sleep ==
    /\ pc = "sleep"
    /\ waits' = waits + 1
    /\ utcNow' = utcNow + PauseSeconds
    /\ qi' = qi + 1
    /\ pc' = "collect"
    /\ UNCHANGED <<script, tz, vocab, passNo, queries, results, all_results,
                   executed, inflight, fetchOutcome, budget, items, pos,
                   unique, seen_urls, verdict, final, entry, recent>>

\* search_and_collect returns; all_results.extend(...)
EndPass ==
    /\ pc = "collect"
    /\ qi > Len(queries)
    /\ all_results' = all_results \o results
    /\ passNo' = passNo + 1
    /\ pc' = "main"
    /\ UNCHANGED <<script, tz, utcNow, vocab, queries, qi, results, executed,
                   inflight, waits, fetchOutcome, budget, items, pos, unique,
                   seen_urls, verdict, final, entry, recent>>

\* main calls the deduplicator on all_results
StartDedup ==
    /\ pc = "main"
    /\ passNo = NumPasses(script)
    /\ items' = all_results
    /\ pos' = 1
    /\ unique' = <<>>
    /\ seen_urls' = {}
    /\ verdict' = <<>>
    /\ pc' = "dedup"
    /\ UNCHANGED <<script, tz, utcNow, vocab, passNo, queries, qi, results,
                   all_results, executed, inflight, waits, fetchOutcome,
                   budget, final, entry, recent>>

\* a call of is_recent on an entry
CallIsRecent ==
    /\ pc = "recent_call"
    /\ recent' = is_recent(entry, DaysLimit(script), utcNow, tz)
    /\ pc' = "recent_done"
    /\ UNCHANGED <<script, tz, utcNow, vocab, passNo, queries, qi, results,
                   all_results, executed, inflight, waits, fetchOutcome,
                   budget, items, pos, unique, seen_urls, verdict, final, entry>>

----------------------------------------------------------------------------
(* Vocabularies *)

NoVocab == [issues |-> <<>>, companies |-> <<>>, ngo |-> <<>>, country |-> <<>>,
            palm |-> <<>>, aliases |-> <<>>]

Wilmar == [company |-> "Wilmar", aliases |-> <<"Wilmar", "Wilmar Group">>]
SimeDarby == [company |-> "Sime Darby", aliases |-> <<"Sime Darby">>]

EnVocabs ==
    { [NoVocab EXCEPT !.issues = <<"fire", "land dispute">>,
                      !.companies = <<"Wilmar", "cargill">>],
      [NoVocab EXCEPT !.issues = <<"fire", "eudr">>,
                      !.ngo = <<"Reuters", "mongabay">>],
      [NoVocab EXCEPT !.issues = <<"fire">>, !.ngo = <<"Reuters">>,
                      !.country = <<"Liberia", "Nigeria">>],
      [NoVocab EXCEPT !.companies = <<"Wilmar">>, !.ngo = <<"Reuters">>,
                      !.country = <<"Liberia">>],
      NoVocab }

EsVocabs ==
    { [NoVocab EXCEPT !.palm = <<"aceite de palma", "palma aceitera">>,
                      !.issues = <<"incendios">>,
                      !.country = <<"Colombia", "Brasil">>],
      [NoVocab EXCEPT !.palm = <<"palma aceitera">>,
                      !.issues = <<"conflicto", "incendios">>,
                      !.country = <<"Colombia", "Brasil">>],
      [NoVocab EXCEPT !.palm = <<"aceite de palma", "palma aceitera">>,
                      !.companies = <<"Dinant">>,
                      !.ngo = <<"Mongabay", "Greenpeace">>],
      [NoVocab EXCEPT !.issues = <<"conflicto", "incendios">>,
                      !.companies = <<"Dinant", "REPSA">>],
      NoVocab }

IdnVocabs ==
    { [NoVocab EXCEPT !.issues = <<"konflik", "masyarakat adat">>,
                      !.ngo = <<"WALHI", "Tempo">>],
      [NoVocab EXCEPT !.issues = <<"konflik">>,
                      !.aliases = <<Wilmar, SimeDarby>>],
      [NoVocab EXCEPT !.issues = <<"konflik", "polusi">>, !.aliases = <<SimeDarby>>],
      [NoVocab EXCEPT !.ngo = <<"WALHI">>, !.aliases = <<Wilmar>>],
      NoVocab }

RunVocabs(s) == IF s = "en" THEN EnVocabs ELSE IF s = "es" THEN EsVocabs ELSE IdnVocabs

TZOffsets == {-18000, 0, 25200}

----------------------------------------------------------------------------
(* Specifications *)

\* a run of main
Init ==
    /\ script \in Scripts
    /\ pc = "main"
    /\ tz \in TZOffsets
    /\ utcNow = Now0
    /\ vocab \in RunVocabs(script)
    /\ passNo = 0 /\ queries = <<>> /\ qi = 1 /\ results = <<>>
    /\ all_results = <<>> /\ executed = <<>> /\ inflight = FALSE /\ waits = 0
    /\ fetchOutcome = "none" /\ budget = MaxArticles
    /\ items = <<>> /\ pos = 1 /\ unique = <<>> /\ seen_urls = {}
    /\ verdict = <<>> /\ final = <<>>
    /\ entry = NoTime /\ recent = FALSE

Next ==
    \/ StartPass
    \/ IssueRequest
    \/ FetchReturn
    \/ FetchRaise
    \/ Sleep
    \/ EndPass
    \/ StartDedup
    \/ DedupStep
    \/ DedupReturn

Spec == Init /\ [][Next]_vars

\* a deduplicator called on an arbitrary list of records; the Spanish
\* script's deduplicate is the English one verbatim and is not run twice
InitDedup ==
    /\ script \in {"en", "idn"}
    /\ pc = "dedup"
    /\ items \in SeqsUpTo(Records, MaxItems)
    /\ pos = 1 /\ unique = <<>> /\ seen_urls = {} /\ verdict = <<>>
    /\ final = <<>>
    /\ tz = 0 /\ utcNow = Now0 /\ vocab = NoVocab /\ passNo = 0
    /\ queries = <<>> /\ qi = 1 /\ results = <<>> /\ all_results = <<>>
    /\ executed = <<>> /\ inflight = FALSE /\ waits = 0
    /\ fetchOutcome = "none" /\ budget = 0 /\ entry = NoTime /\ recent = FALSE

NextDedup == DedupStep \/ DedupReturn

SpecDedup == InitDedup /\ [][NextDedup]_vars

\* offsets of the publication instant from the edge of the recency window
WindowOffsets == {-25200, -1, 0, 1, 18000, 25200, 50 * SecondsPerDay}

\* is_recent called on an arbitrary entry at an arbitrary moment
InitRecent ==
    /\ script \in Scripts
    /\ pc = "recent_call"
    /\ tz \in TZOffsets
    /\ utcNow \in {Now0, Now0 + 1}
    /\ entry \in {NoTime} \cup
            { utcNow - DaysLimit(script) * SecondsPerDay + d : d \in WindowOffsets }
    /\ recent = FALSE
    /\ vocab = NoVocab /\ passNo = 0
    /\ queries = <<>> /\ qi = 1 /\ results = <<>> /\ all_results = <<>>
    /\ executed = <<>> /\ inflight = FALSE /\ waits = 0
    /\ fetchOutcome = "none" /\ budget = 0
    /\ items = <<>> /\ pos = 1 /\ unique = <<>> /\ seen_urls = {}
    /\ verdict = <<>> /\ final = <<>>

NextRecent == CallIsRecent

SpecRecent == InitRecent /\ [][NextRecent]_vars

----------------------------------------------------------------------------
(* Properties *)

\* the words two titles share
SharedWords(x, y) == normalize_title(x.title) \cap normalize_title(y.title)

\* identity-equivalence of two records under script s's rule
IdentityEquivalent(s, x, y) ==
    IF s = "idn"
    THEN x.url = y.url
         \/ AtLeast(title_similarity(x.title, y.title), SimilarityRatio)
    ELSE Cardinality(SharedWords(x, y)) >= MinCommon

NoEquivalentPair(s, list) ==
    \A i, j \in 1..Len(list) :
        i # j => ~IdentityEquivalent(s, list[i], list[j])

\* C1: while a deduplicator runs and in its returned list, the unique list
\* holds no two records at different positions that are identity-equivalent
\* under the script's rule (4 shared words; or equal URL / blended score at
\* least SIMILARITY_RATIO).
C1_NoEquivalentPairInUnique ==
    NoEquivalentPair(script, unique) /\ NoEquivalentPair(script, final)

\* the records of all_results that are the same article as all_results[i]
SameArticle(i) ==
    { j \in 1..Len(all_results) :
        /\ all_results[j].url = all_results[i].url
        /\ all_results[j].title = all_results[i].title }

\* all_results[j] is similar to all_results[i] under the script's rule
SimilarArticle(i, j) ==
    \/ IdentityEquivalent(script, all_results[i], all_results[j])
    \/ IdentityEquivalent(script, all_results[j], all_results[i])

\* C2: when several queries each returned the same recent article (same
\* non-empty URL, same title) and no other returned article is similar to
\* it, the final list holds that article exactly once, with the query that
\* returned it first.
C2_SharedArticleOnce ==
    pc = "done" =>
        \A i \in 1..Len(all_results) :
            ( /\ all_results[i].url # ""
              /\ Cardinality({ all_results[j].query : j \in SameArticle(i) }) >= 2
              /\ \A j \in (1..Len(all_results)) \ SameArticle(i) :
                    ~SimilarArticle(i, j) )
            => LET hits == { k \in 1..Len(final) :
                                /\ final[k].url = all_results[i].url
                                /\ final[k].title = all_results[i].title }
                   first == SetMin(SameArticle(i))
               IN  /\ Cardinality(hits) = 1
                   /\ \A k \in hits : final[k].query = all_results[first].query

NoSharedUrl(list) ==
    \A i, j \in 1..Len(list) :
        (i # j /\ list[i].url # "") => list[i].url # list[j].url

\* C3: the deduplicator's output never contains two records with the same
\* non-empty URL, however dissimilar their titles.
C3_NoSharedUrl == NoSharedUrl(unique) /\ NoSharedUrl(final)

\* input positions whose record was appended to unique, ascending
KeptPositions ==
    SelectSeq([p \in 1..Len(verdict) |-> p], LAMBDA p : verdict[p] = "kept")

RECURSIVE IsSubsequence(_, _)
IsSubsequence(u, xs) ==
    IF u = <<>> THEN TRUE
    ELSE IF xs = <<>> THEN FALSE
    ELSE IF Head(u) = Head(xs) THEN IsSubsequence(Tail(u), Tail(xs))
    ELSE IsSubsequence(u, Tail(xs))

\* the test by which script s discards `later` as a duplicate of `earlier`
DuplicateOf(s, later, earlier) ==
    IF s = "idn"
    THEN later.url = earlier.url \/ TitleDupTable[later.title][earlier.title]
    ELSE SimilarTable[later.title][earlier.title]

\* C4: the output is a subsequence of the input (same records, same order),
\* and a record discarded as a duplicate duplicates an earlier input record
\* that is kept.
C4_SubsequenceFirstKept ==
    /\ unique = [k \in 1..Len(KeptPositions) |-> items[KeptPositions[k]]]
    /\ IsSubsequence(unique, items)
    /\ \A p \in 1..Len(verdict) :
        verdict[p] \in {"dup_url", "dup_title"} =>
            \E j \in 1..(p - 1) :
                verdict[j] = "kept" /\ DuplicateOf(script, items[p], items[j])
    /\ (pc = "done" => final = unique /\ IsSubsequence(final, items))

C4_Witness ==
    /\ pc = "done"
    /\ Len(items) = 3
    /\ verdict[2] \in {"dup_url", "dup_title"}
    /\ verdict[3] = "kept"

\* C5: applying the deduplicator to its own output returns it unchanged.
C5_Idempotent == pc = "done" => Dedup(script, final) = final

C5_Witness == pc = "done" /\ Len(final) >= 2 /\ Len(final) < Len(items)

\* C6: a fetch that raises or returns nothing contributes no entries and
\* the run goes on to the next query; it is not aborted.
C6_FetchFailureTolerated ==
    fetchOutcome \in {"raised", "empty"} => pc # "aborted"

\* C7: is_recent is true exactly when the entry has a publication instant
\* and that instant is at least now minus the window, both on one clock.
C7_RecentIffWithinWindow ==
    pc = "recent_done" =>
        (recent <=> ( /\ entry # NoTime
                      /\ entry >= utcNow - DaysLimit(script) * SecondsPerDay ))

\* C8: a feed request is issued only when none is in flight and, unless it
\* is the first of the run, exactly one pacing wait has completed since the
\* previous request.
C8_OneWaitBetweenRequests ==
    [][ Len(executed') > Len(executed) =>
            /\ ~inflight
            /\ (executed = <<>> \/ waits = 1) ]_vars

C8_Witness ==
    /\ pc = "fetching"
    /\ passNo >= 1
    /\ qi = 1
    /\ Len(executed) >= 3

\* the lists a pass iterates
PassLists(s, p, v) ==
    IF s = "en" THEN
        (IF p = 1 THEN {v.issues}
         ELSE IF p = 2 THEN {v.companies, v.issues}
         ELSE IF p = 3 THEN {v.issues, v.ngo}
         ELSE {v.country})
    ELSE IF s = "es" THEN
        (IF p = 1 THEN {v.palm, v.issues}
         ELSE IF p = 2 THEN {v.companies, v.issues}
         ELSE IF p = 3 THEN {v.palm, v.issues, v.country}
         ELSE {v.palm, v.ngo})
    ELSE
        (IF p = 1 THEN {v.issues, v.ngo} ELSE {v.aliases, v.issues})

\* positions of the outer, middle and inner element of the n-th query of
\* a nested iteration whose inner lists have ny and nz elements
Outer(n, ny, nz) == ((n - 1) \div (ny * nz)) + 1
Middle(n, ny, nz) == (((n - 1) \div nz) % ny) + 1
Inner(n, nz) == ((n - 1) % nz) + 1

QuotedOr(aliases) ==
    IF Len(aliases) = 1 THEN "\"" \o aliases[1] \o "\""
    ELSE "\"" \o aliases[1] \o "\" OR \"" \o aliases[2] \o "\""

Suffixes == <<" sawit", " \"minyak sawit\"", "">>

\* the queries of pass p, position by position
ExpectedPass(s, p, v) ==
    LET ni == Len(v.issues)
        nc == Len(v.companies)
        ng == Len(v.ngo)
        nk == Len(v.country)
        nt == Len(v.palm)
        na == Len(v.aliases)
    IN
    IF s = "en" THEN
        (IF p = 1 THEN [n \in 1..ni |-> "palm oil " \o v.issues[n]]
         ELSE IF p = 2 THEN
            [n \in 1..(nc * ni) |->
                v.companies[Outer(n, 1, ni)] \o " " \o v.issues[Inner(n, ni)]]
         ELSE IF p = 3 THEN
            [n \in 1..(ni * ng) |->
                "palm oil " \o v.issues[Outer(n, 1, ng)] \o " " \o v.ngo[Inner(n, ng)]]
         ELSE [n \in 1..nk |-> "palm oil " \o v.country[n]])
    ELSE IF s = "es" THEN
        (IF p = 1 THEN
            [n \in 1..(nt * ni) |->
                v.palm[Outer(n, 1, ni)] \o " " \o v.issues[Inner(n, ni)]]
         ELSE IF p = 2 THEN
            [n \in 1..(nc * ni) |->
                v.companies[Outer(n, 1, ni)] \o " " \o v.issues[Inner(n, ni)]]
         ELSE IF p = 3 THEN
            [n \in 1..(nt * ni * nk) |->
                v.palm[Outer(n, ni, nk)] \o " " \o v.issues[Middle(n, ni, nk)]
                    \o " " \o v.country[Inner(n, nk)]]
         ELSE [n \in 1..(nt * ng) |->
                v.palm[Outer(n, 1, ng)] \o " " \o v.ngo[Inner(n, ng)]])
    ELSE
        (IF p = 1 THEN
            [n \in 1..(ni * (ng + 1)) |->
                IF Inner(n, ng + 1) = 1
                THEN "sawit " \o v.issues[Outer(n, 1, ng + 1)]
                ELSE "sawit " \o v.issues[Outer(n, 1, ng + 1)] \o " "
                        \o v.ngo[Inner(n, ng + 1) - 1]]
         ELSE
            [n \in 1..(na * ni * 3) |->
                "(" \o QuotedOr(v.aliases[Outer(n, ni, 3)].aliases) \o ") "
                    \o v.issues[Middle(n, ni, 3)] \o Suffixes[Inner(n, 3)]])

RECURSIVE ExpectedUpTo(_, _, _)
ExpectedUpTo(s, p, v) ==
    IF p = 0 THEN <<>> ELSE ExpectedUpTo(s, p - 1, v) \o ExpectedPass(s, p, v)

ExpectedRun(s, v) == ExpectedUpTo(s, NumPasses(s), v)

IsPrefix(xs, ys) == Len(xs) <= Len(ys) /\ xs = SubSeq(ys, 1, Len(xs))

\* the executed queries are the passes concatenated in main's order, each in
\* nested iteration order, and none is the empty string
QueriesInOrder ==
    /\ IsPrefix(executed, ExpectedRun(script, vocab))
    /\ (pc \in {"dedup", "done"} => executed = ExpectedRun(script, vocab))
    /\ (pc \in {"collect", "fetching", "sleep"} =>
            /\ queries = ExpectedPass(script, passNo + 1, vocab)
            /\ Len(executed) >= Len(ExpectedUpTo(script, passNo, vocab)))
    /\ \A k \in 1..Len(executed) : executed[k] # ""
    /\ \A k \in 1..Len(queries) : queries[k] # ""

\* C9 as stated: passes concatenated in main's order, nested iteration
\* order within a pass, no empty query string, and a pass over an empty
\* vocabulary list yields zero queries.
C9_QueryOrderAnyEmptyList ==
    /\ QueriesInOrder
    /\ (pc \in {"collect", "fetching", "sleep"} =>
            ((\E L \in PassLists(script, passNo + 1, vocab) : L = <<>>)
                => queries = <<>>))

\* the lists whose emptiness leaves a pass without queries
EmptyingLists(s, p, v) ==
    IF s = "idn" /\ p = 1 THEN {v.issues} ELSE PassLists(s, p, v)

\* C9 amended: as C9, except that simple_palm_issue_queries over an empty
\* NGO list still yields one 'sawit <issue>' query per issue; every other
\* pass, and that pass over an empty issue list, yields zero queries.
C9_QueryOrderEmptyList ==
    /\ QueriesInOrder
    /\ (pc \in {"collect", "fetching", "sleep"} =>
            /\ ((\E L \in EmptyingLists(script, passNo + 1, vocab) : L = <<>>)
                    => queries = <<>>)
            /\ ((script = "idn" /\ passNo = 0 /\ vocab.ngo = <<>>)
                    => queries = [n \in 1..Len(vocab.issues) |->
                                    "sawit " \o vocab.issues[n]]))

C9_Witness ==
    /\ pc = "done"
    /\ Len(executed) >= 6
    /\ \E p \in 1..NumPasses(script) : ExpectedPass(script, p, vocab) = <<>>
    /\ \E p \in 1..NumPasses(script) : Len(ExpectedPass(script, p, vocab)) >= 4

====
